---- MODULE Spec2Model ----
(***************************************************************************)
(* A model of app.py of yt-trend: the search collector (youtube_search),   *)
(* the stats aggregator (youtube_videos_stats), the keyword extractor      *)
(* (tokenize, keywords_from_df), the transport wrapper (yt_get) and the    *)
(* run block that chains them.                                             *)
(*                                                                         *)
(* Data representation.  A videoId is a positive integer; 0 stands for an  *)
(* item whose videoId is absent or empty (both are falsy in the code).     *)
(* A continuation token is a string; "" stands for an absent or empty      *)
(* nextPageToken (both falsy).  A character is its Unicode code point, a   *)
(* text is a sequence of characters.  ER(%) is held in thousandths (the    *)
(* code rounds it to 3 decimals), so 8.0 is 8000.                          *)
(***************************************************************************)
EXTENDS Integers, Sequences, FiniteSets

VARIABLES
    pc,               \* control location of the modelled call
    API_KEY,          \* app.py:56, "" when no credential is configured
    max_results,      \* youtube_search parameter (the limit)
    ids,              \* youtube_search local: videoIds appended so far
    fetched,          \* youtube_search local
    next_page_token,  \* youtube_search local
    search_ret,       \* value returned by youtube_search
    video_ids,        \* youtube_videos_stats parameter
    i,                \* youtube_videos_stats loop variable (0-based offset)
    rows,             \* youtube_videos_stats local
    df,               \* value returned by youtube_videos_stats
    kw_df,            \* keywords_from_df argument
    topn,             \* keywords_from_df parameter
    freqs,            \* value returned by keywords_from_df
    error,            \* <<>> or <<status, body>> of the RuntimeError raised
    shown,            \* what the run block presented: "" until it ends
    reqLog,           \* history: every HTTP request issued, in order
    respLog           \* history: every HTTP response received, in order

vars == <<pc, API_KEY, max_results, ids, fetched, next_page_token, search_ret,
          video_ids, i, rows, df, kw_df, topn, freqs, error, shown,
          reqLog, respLog>>

searchVars == <<max_results, ids, fetched, next_page_token, search_ret>>
statsVars  == <<video_ids, i, rows, df>>
kwVars     == <<kw_df, topn, freqs>>

----------------------------------------------------------------------------
(* Bounds of the model *)

\* at most this many search requests are explored in one call
MaxPages == 4
\* largest limit given to youtube_search when it is called directly
MaxLimit == 101
\* longest id list given to youtube_videos_stats when it is called directly
MaxIds == 101
\* the run block is explored for slider positions 1..MaxSlider (10 each)
MaxSlider == 6
\* at most this many rows in the argument of keywords_from_df
MaxRows == 3
\* largest topn given to keywords_from_df when it is called directly
MaxTopN == 3

----------------------------------------------------------------------------
(* Generic helpers *)

Min(a, b) == IF a < b THEN a ELSE b

Range(s) == {s[k] : k \in 1..Len(s)}

\* ceil(a / b) for a >= 0, b > 0
CeilDiv(a, b) == (a + b - 1) \div b

\* The left fold Op(... Op(Op(acc, s[lo]), s[lo+1]) ..., s[hi]) of a loop
\* over s[lo..hi]; the range is halved, and the left half's result is
\* evaluated (left = left) before the right half starts, only to keep the
\* evaluation shallow: the elements are still consumed left to right.
RECURSIVE FoldLeft(_, _, _, _, _)
FoldLeft(Op(_, _), acc, s, lo, hi) ==
    IF lo > hi THEN acc
    ELSE IF lo = hi THEN Op(acc, s[lo])
    ELSE LET mid == (lo + hi) \div 2
             left == FoldLeft(Op, acc, s, lo, mid)
         IN  IF left = left THEN FoldLeft(Op, left, s, mid + 1, hi) ELSE left

----------------------------------------------------------------------------
(* yt_get: the transport wrapper *)

\* app.py:104 and app.py:152-153: the batch size of both endpoints
PageCap == 50

NoError == [kind |-> "none", status |-> 0, body |-> ""]

\* app.py:69-74: raised before any request when no credential is configured
ConfigError == [kind |-> "config", status |-> 0, body |-> ""]

\* app.py:84-85: RuntimeError(f"API 오류 {r.status_code}: {r.text}")
ApiError(r) == [kind |-> "api", status |-> r.status, body |-> r.body]

\* app.py:69: if not API_KEY
YtGetHasKey == API_KEY # ""

\* only server errors treated as failures
YtGetFailsServerOnly(r) == r.status >= 500

\* app.py:84: r.status_code != 200
YtGetFails(r) == r.status # 200

\* A request as yt_get sends it (app.py:76-80); fields a path does not use
\* are 0, "" or <<>>.
SearchRequest(page_size, token) ==
    [path |-> "search", maxResults |-> page_size, pageToken |-> token,
     id |-> <<>>]

VideosRequest(chunk) ==
    [path |-> "videos", maxResults |-> 0, pageToken |-> "", id |-> chunk]

\* Non-success responses of either endpoint.
FailureResponses ==
    { [status |-> st, body |-> "quotaExceeded", items |-> <<>>,
       nextPageToken |-> ""] : st \in {403, 500} }

----------------------------------------------------------------------------
(* youtube_search *)

\* The videoIds of a search page of n items: item k carries
\* start + ((k-1) % period), and no videoId at all when hole and k = 1.
PageItems(start, n, period, hole) ==
    [k \in 1..n |-> IF hole /\ k = 1 THEN 0 ELSE start + ((k - 1) % period)]

\* How many items a page may hold: none, one (a short page), exactly what
\* was asked for, or one more than was asked for.
PageCounts(page_size) == {0, 1, page_size, page_size + 1}

\* The item lists a page may carry, given the number of items already seen:
\*   fresh  ids not seen before, for every count
\*   again  ids 1..n-1 followed by 1, so that an id repeats inside the page
\*          and, after a first page, across pages, for a short and a full
\*          page
\*   hole   a full fresh page whose first item has no videoId
SearchPages(page_size, seen) ==
    { PageItems(seen + 1, n, n + 1, FALSE) : n \in PageCounts(page_size) } \cup
    { PageItems(1, n, IF n > 1 THEN n - 1 ELSE 1, FALSE) :
        n \in {1, page_size} } \cup
    { PageItems(seen + 1, page_size, page_size + 1, TRUE) }

Tokens == {"", "CAUQAA"}

SearchResponses(page_size, seen) ==
    { [status |-> 200, body |-> "", items |-> it, nextPageToken |-> tok] :
        it \in SearchPages(page_size, seen), tok \in Tokens }
    \cup FailureResponses

\* the loop test off by one
SearchLoopCondInclusive(f, limit) == f <= limit

\* app.py:103: while fetched < max_results
SearchLoopCond(f, limit) == f < limit

\* the page size without the remaining count
PageSizeFixed(limit, f) == PageCap

\* app.py:104: page_size = min(50, max_results - fetched)
PageSize(limit, f) == Min(PageCap, limit - f)

\* app.py:126-129: append the truthy videoIds of the page, in order
AppendVideoIds(acc, items) == acc \o SelectSeq(items, LAMBDA vid : vid # 0)

\* the break taken only when both conditions hold
SearchBreakBoth(token, items) == (token = "") /\ (Len(items) = 0)

\* app.py:135: if (not next_page_token) or (len(items) == 0): break
SearchBreak(token, items) == (token = "") \/ (Len(items) = 0)

\* the list returned as collected
DictFromKeysKeepAll(s) == s

\* app.py:139: list(dict.fromkeys(ids)): keys in insertion order, a key
\* already present keeps its place
SetDefault(acc, key) == IF key \in Range(acc) THEN acc ELSE Append(acc, key)

DictFromKeys(s) == FoldLeft(SetDefault, <<>>, s, 1, Len(s))

SearchRequests == SelectSeq(reqLog, LAMBDA q : q.path = "search")

\* app.py:103-136: one iteration of the while loop
SearchPage ==
    /\ pc = "search_loop"
    /\ SearchLoopCond(fetched, max_results)
    /\ Len(SearchRequests) < MaxPages
    /\ LET page_size == PageSize(max_results, fetched) IN
       IF ~YtGetHasKey
       THEN /\ pc' = "raised"
            /\ error' = ConfigError
            /\ UNCHANGED <<ids, fetched, next_page_token, reqLog, respLog>>
       ELSE \E r \in SearchResponses(page_size, fetched) :
            /\ reqLog' = Append(reqLog,
                                SearchRequest(page_size, next_page_token))
            /\ respLog' = Append(respLog, r)
            /\ IF YtGetFails(r)
               THEN /\ pc' = "raised"
                    /\ error' = ApiError(r)
                    /\ UNCHANGED <<ids, fetched, next_page_token>>
               ELSE /\ ids' = AppendVideoIds(ids, r.items)
                    /\ fetched' = fetched + Len(r.items)
                    /\ next_page_token' = r.nextPageToken
                    /\ pc' = IF SearchBreak(r.nextPageToken, r.items)
                             THEN "search_exit" ELSE "search_loop"
                    /\ error' = error
    /\ UNCHANGED <<API_KEY, max_results, search_ret, statsVars, kwVars, shown>>

\* app.py:103: the loop condition is false
SearchLoopEnd ==
    /\ pc = "search_loop"
    /\ ~SearchLoopCond(fetched, max_results)
    /\ pc' = "search_exit"
    /\ UNCHANGED <<API_KEY, searchVars, statsVars, kwVars, error, shown,
                   reqLog, respLog>>

\* app.py:139: return list(dict.fromkeys(ids))
SearchReturn ==
    /\ pc = "search_exit"
    /\ search_ret' = DictFromKeys(ids)
    /\ pc' = "search_returned"
    /\ UNCHANGED <<API_KEY, max_results, ids, fetched, next_page_token,
                   statsVars, kwVars, error, shown, reqLog, respLog>>

----------------------------------------------------------------------------
(* tokenize and keywords_from_df *)

\* app.py:29-38, each word as its code points
DEFAULT_STOPWORDS ==
    { <<50689, 49345>>, <<46041, 50689, 49345>>,
      <<48652, 51060, 47196, 44536>>, <<118, 108, 111, 103>>,
      <<116, 104, 101>>, <<97>>, <<116, 111>>, <<111, 102>>, <<105, 110>>,
      <<111, 110>>, <<102, 111, 114>>, <<97, 110, 100>>, <<105, 115>>,
      <<97, 114, 101>>, <<119, 105, 116, 104>>, <<102, 114, 111, 109>>,
      <<54620>>, <<44163>>, <<49688>>, <<51060>>, <<44536>>, <<51200>>,
      <<48143>>, <<46321>>, <<46412>>, <<46412, 47928>>,
      <<50724, 45720>>, <<54616, 47336>>, <<51068, 49345>>,
      <<52292, 45328>>, <<50976, 53916, 48652>>,
      <<121, 111, 117, 116, 117, 98, 101>>,
      <<115, 104, 111, 114, 116, 115>>, <<115, 104, 111, 114, 116>>,
      <<44277, 49885>>, <<111, 102, 102, 105, 99, 105, 97, 108>>,
      <<102, 117, 108, 108>>,
      <<50, 48, 50, 51>>, <<50, 48, 50, 52>>, <<50, 48, 50, 53>> }

\* app.py:41: the character class [A-Za-z가-힣]
TokenChar(c) ==
    \/ c \in 65..90
    \/ c \in 97..122
    \/ c \in 44032..55203

\* app.py:202: text.lower(), on the characters the model uses
LowerChar(c) == IF c \in 65..90 THEN c + 32 ELSE c

Lower(text) == [k \in 1..Len(text) |-> LowerChar(text[k])]

\* app.py:202: TOKEN_PATTERN.findall: the maximal runs of class characters,
\* left to right
RECURSIVE FindAll(_, _, _, _)
FindAll(text, k, run, out) ==
    IF k > Len(text)
    THEN IF run = <<>> THEN out ELSE Append(out, run)
    ELSE IF TokenChar(text[k])
         THEN FindAll(text, k + 1, Append(run, text[k]), out)
         ELSE FindAll(text, k + 1, <<>>,
                      IF run = <<>> THEN out ELSE Append(out, run))

\* app.py:205: t not in DEFAULT_STOPWORDS and len(t) >= 2
TokenKept(t) == t \notin DEFAULT_STOPWORDS /\ Len(t) >= 2

\* app.py:197-206
tokenize(text) == SelectSeq(FindAll(Lower(text), 1, <<>>, <<>>), TokenKept)

\* app.py:218: f"{title_txt} {desc_txt}"
RowText(row) == row.title \o <<32>> \o row.description

\* app.py:214-218: corpus.extend(tokenize(...)) for each row, in row order
ExtendCorpus(acc, row) == acc \o tokenize(RowText(row))

CorpusOf(rws) == FoldLeft(ExtendCorpus, <<>>, rws, 1, Len(rws))

\* app.py:220: Counter(corpus): <<token, count>> pairs in the order the
\* tokens were first inserted
CountOne(acc, t) ==
    LET at == {p \in 1..Len(acc) : acc[p][1] = t}
    IN  IF at = {}
        THEN Append(acc, <<t, 1>>)
        ELSE [p \in 1..Len(acc) |->
                 IF p \in at THEN <<t, acc[p][2] + 1>> ELSE acc[p]]

Counter(toks) == FoldLeft(CountOne, <<>>, toks, 1, Len(toks))

\* the same insertion, but before the pairs of equal count
InsertByCountUnstable(sorted, e) ==
    LET before == {p \in 1..Len(sorted) : sorted[p][2] > e[2]}
        n == IF before = {} THEN 0
             ELSE CHOOSE p \in before : \A q \in before : q <= p
    IN  SubSeq(sorted, 1, n) \o <<e>> \o SubSeq(sorted, n + 1, Len(sorted))

\* the stable descending sort of most_common: e goes after every pair whose
\* count is not smaller
InsertByCount(sorted, e) ==
    LET before == {p \in 1..Len(sorted) : sorted[p][2] >= e[2]}
        n == IF before = {} THEN 0
             ELSE CHOOSE p \in before : \A q \in before : q <= p
    IN  SubSeq(sorted, 1, n) \o <<e>> \o SubSeq(sorted, n + 1, Len(sorted))

SortByCount(items) == FoldLeft(InsertByCount, <<>>, items, 1, Len(items))

\* app.py:221: Counter.most_common(n) = sorted(items, key=count,
\* reverse=True)[:n]
most_common(counter, n) ==
    LET sorted == SortByCount(counter)
    IN  SubSeq(sorted, 1, Min(n, Len(sorted)))

\* app.py:209-221
keywords_from_df(rws, n) == most_common(Counter(CorpusOf(rws)), n)

----------------------------------------------------------------------------
(* youtube_videos_stats *)

\* dict.get(key, default)
Get(d, key, default) == IF key \in DOMAIN d THEN d[key] ELSE default

\* int() of a string of decimal digits
RECURSIVE ParseDec(_, _, _)
ParseDec(str, k, acc) ==
    IF k > Len(str) THEN acc
    ELSE ParseDec(str, k + 1, acc * 10 + (str[k] - 48))

\* app.py:172-174: int(stats.get(key, 0) or 0); a missing key and an empty
\* string both give 0
IntOrZero(stats, key) ==
    IF key \notin DOMAIN stats THEN 0
    ELSE IF stats[key] = <<>> THEN 0
    ELSE ParseDec(stats[key], 1, 0)

\* app.py:164-176: the row built from one item of the response
RowOf(it) ==
    LET s == Get(it, "snippet", <<>>)
        stats == Get(it, "statistics", <<>>)
    IN  [videoId |-> it.id,
         title |-> Get(s, "title", <<>>),
         description |-> Get(s, "description", <<>>),
         channelTitle |-> Get(s, "channelTitle", ""),
         publishedAt |-> Get(s, "publishedAt", ""),
         viewCount |-> IntOrZero(stats, "viewCount"),
         likeCount |-> IntOrZero(stats, "likeCount"),
         commentCount |-> IntOrZero(stats, "commentCount")]

\* rows rebuilt from the last response only
AppendRowsOverwrite(acc, items) == [k \in 1..Len(items) |-> RowOf(items[k])]

\* app.py:163-176: rows.append(row) for each item, in response order
AppendRows(acc, items) == acc \o [k \in 1..Len(items) |-> RowOf(items[k])]

\* round-half-to-even of num / den (num >= 0, den > 0), as numpy rounds
RoundHalfEven(num, den) ==
    LET q == num \div den
        r == num % den
    IN  IF 2 * r < den THEN q
        ELSE IF 2 * r > den THEN q + 1
        ELSE IF q % 2 = 0 THEN q ELSE q + 1

\* the rate without the comments
EngagementRateLikesOnly(view, like, comment) ==
    IF view > 0 THEN RoundHalfEven(like * 100000, view) ELSE 0

\* app.py:185-189: np.where(view > 0, (like + comment) / view * 100.0,
\* 0.0).round(3), in thousandths
EngagementRate(view, like, comment) ==
    IF view > 0 THEN RoundHalfEven((like + comment) * 100000, view) ELSE 0

\* app.py:182: pd.to_datetime(errors="coerce"): what does not parse is NaT
ValidTimestamps == {"2024-05-01T09:30:00Z"}

ToDatetime(str) == IF str \in ValidTimestamps THEN str ELSE "NaT"

\* app.py:178-191: the DataFrame returned; the derived columns are added
\* only when there is a row
MakeDf(rws) ==
    [k \in 1..Len(rws) |->
        [videoId |-> rws[k].videoId,
         title |-> rws[k].title,
         description |-> rws[k].description,
         channelTitle |-> rws[k].channelTitle,
         publishedAt |-> ToDatetime(rws[k].publishedAt),
         viewCount |-> rws[k].viewCount,
         likeCount |-> rws[k].likeCount,
         commentCount |-> rws[k].commentCount,
         ER |-> EngagementRate(rws[k].viewCount, rws[k].likeCount,
                               rws[k].commentCount)]]

\* app.py:152: range(0, len(video_ids), 50) still has an offset to visit
StatsLoopCond(offset, vids) == offset < Len(vids)

\* app.py:153: video_ids[i:i+50]
Chunk(vids, offset) ==
    SubSeq(vids, offset + 1, Min(offset + PageCap, Len(vids)))

\* a step one short of the chunk length
NextOffsetOverlap(offset) == offset + PageCap - 1

\* app.py:152: the step of the range
NextOffset(offset) == offset + PageCap

\* What the details endpoint may send back with an item: snippet and
\* statistics, either of which may lack fields.
Payloads ==
    << [snippet |-> [title |-> <<97, 98, 32, 99, 100>>,
                     description |-> <<97, 98, 32, 99, 100, 32, 101, 102>>,
                     channelTitle |-> "ch1",
                     publishedAt |-> "2024-05-01T09:30:00Z"],
        statistics |-> [viewCount |-> <<49, 48, 48>>, likeCount |-> <<53>>,
                        commentCount |-> <<51>>]],
       [snippet |-> [title |-> <<65, 66>>, description |-> <<99, 100, 33>>,
                     channelTitle |-> "ch2", publishedAt |-> "yesterday"],
        statistics |-> [viewCount |-> <<48>>, likeCount |-> <<53>>,
                        commentCount |-> <<51>>]],
       [snippet |-> [title |-> <<99, 100>>, description |-> <<97, 98>>,
                     channelTitle |-> "ch1",
                     publishedAt |-> "2024-05-01T09:30:00Z"],
        statistics |-> [viewCount |-> <<51>>, likeCount |-> <<49>>,
                        commentCount |-> <<48>>]],
       [snippet |-> [channelTitle |-> "ch3"],
        statistics |-> [likeCount |-> <<53>>]],
       [snippet |-> [title |-> <<116, 104, 101, 32, 97, 32, 86, 108, 111, 103>>,
                     description |-> <<116, 111, 32, 49, 32, 120>>,
                     channelTitle |-> "ch2",
                     publishedAt |-> "2024-05-01T09:30:00Z"],
        statistics |-> [viewCount |-> <<54, 52>>, commentCount |-> <<49>>]],
       [snippet |-> [title |-> <<101, 102, 49, 101, 102>>,
                     description |-> <<44032, 45208, 32, 97, 98>>,
                     channelTitle |-> "ch1", publishedAt |-> ""],
        statistics |-> [viewCount |-> <<>>, likeCount |-> <<50>>,
                        commentCount |-> <<50>>]],
       [snippet |-> [title |-> <<50689, 49345, 32, 44032, 45208>>,
                     description |-> <<101, 102>>,
                     channelTitle |-> "ch3",
                     publishedAt |-> "2024-05-01T09:30:00Z"],
        statistics |-> [viewCount |-> <<51>>, likeCount |-> <<50>>]],
       [snippet |-> [title |-> <<>>, description |-> <<>>]] >>

\* the ids of s without repeats (the endpoint returns a video once)
Distinct(s) ==
    LET idx == [k \in 1..Len(s) |-> <<k, s[k]>>]
        first == SelectSeq(idx,
                     LAMBDA p : \A j \in 1..(p[1] - 1) : s[j] # p[2])
    IN  [k \in 1..Len(first) |-> first[k][2]]

Reverse(s) == [k \in 1..Len(s) |-> s[Len(s) + 1 - k]]

\* The item at position k of a response carries payload (k + o) mod 8.
DetailItems(sel, o) ==
    [k \in 1..Len(sel) |->
        LET pl == Payloads[((k + o) % Len(Payloads)) + 1]
        IN  IF "statistics" \in DOMAIN pl
            THEN [id |-> sel[k], snippet |-> pl.snippet,
                  statistics |-> pl.statistics]
            ELSE [id |-> sel[k], snippet |-> pl.snippet]]

\* Which of the requested ids the endpoint answers, and in what order: all
\* of them, all in reverse order (with the payloads shifted), only the
\* first, or none.
DetailItemLists(chunk) ==
    LET d == Distinct(chunk)
    IN  { DetailItems(d, 0), DetailItems(Reverse(d), 3),
          DetailItems(SubSeq(d, 1, 1), 0), <<>> }

DetailResponses(chunk) ==
    { [status |-> 200, body |-> "", items |-> it, nextPageToken |-> ""] :
        it \in DetailItemLists(chunk) }
    \cup FailureResponses

VideosRequests == SelectSeq(reqLog, LAMBDA q : q.path = "videos")

\* app.py:152-176: one iteration of the for loop
StatsChunk ==
    /\ pc = "stats_loop"
    /\ StatsLoopCond(i, video_ids)
    /\ LET chunk == Chunk(video_ids, i) IN
       IF ~YtGetHasKey
       THEN /\ pc' = "raised"
            /\ error' = ConfigError
            /\ UNCHANGED <<i, rows, reqLog, respLog>>
       ELSE \E r \in DetailResponses(chunk) :
            /\ reqLog' = Append(reqLog, VideosRequest(chunk))
            /\ respLog' = Append(respLog, r)
            /\ IF YtGetFails(r)
               THEN /\ pc' = "raised"
                    /\ error' = ApiError(r)
                    /\ UNCHANGED <<i, rows>>
               ELSE /\ rows' = AppendRows(rows, r.items)
                    /\ i' = NextOffset(i)
                    /\ pc' = "stats_loop"
                    /\ error' = error
    /\ UNCHANGED <<API_KEY, searchVars, video_ids, df, kwVars, shown>>

\* app.py:178-191: the loop is over; build and return the DataFrame
StatsReturn ==
    /\ pc = "stats_loop"
    /\ ~StatsLoopCond(i, video_ids)
    /\ df' = MakeDf(rows)
    /\ pc' = "stats_returned"
    /\ UNCHANGED <<API_KEY, searchVars, video_ids, i, rows, kwVars, error,
                   shown, reqLog, respLog>>

----------------------------------------------------------------------------
(* The run block *)

\* app.py:387: topn=120
RunTopN == 120

\* app.py:365-368: a row comes before another when its ER(%) is larger, or
\* equal with a larger viewCount
SortsBefore(a, b) ==
    \/ a.ER > b.ER
    \/ a.ER = b.ER /\ a.viewCount > b.viewCount

InsertRow(sorted, e) ==
    LET before == {p \in 1..Len(sorted) : ~SortsBefore(e, sorted[p])}
        n == IF before = {} THEN 0
             ELSE CHOOSE p \in before : \A q \in before : q <= p
    IN  SubSeq(sorted, 1, n) \o <<e>> \o SubSeq(sorted, n + 1, Len(sorted))

\* app.py:365-368: df.sort_values(["ER(%)", "viewCount"], ascending=False)
\* .reset_index(drop=True); rows that tie keep their order
sort_values(d) == FoldLeft(InsertRow, <<>>, d, 1, Len(d))

\* the emptiness test never taken
DfEmptyNever(d) == FALSE

\* app.py:347: if df.empty
DfEmpty(d) == Len(d) = 0

\* app.py:325-339: the button was pressed; without a key the run stops,
\* otherwise youtube_search is entered (app.py:99-101)
RunStart ==
    /\ pc = "idle"
    /\ IF API_KEY = ""
       THEN /\ shown' = "no_key"
            /\ pc' = "done"
            /\ UNCHANGED <<ids, fetched, next_page_token>>
       ELSE /\ ids' = <<>>
            /\ fetched' = 0
            /\ next_page_token' = ""
            /\ pc' = "search_loop"
            /\ shown' = shown
    /\ UNCHANGED <<API_KEY, max_results, search_ret, statsVars, kwVars, error,
                   reqLog, respLog>>

\* app.py:341-345: no ids is a warning; otherwise youtube_videos_stats is
\* entered (app.py:150-152)
RunAfterSearch ==
    /\ pc = "search_returned"
    /\ IF Len(search_ret) = 0
       THEN /\ shown' = "no_results"
            /\ pc' = "done"
            /\ UNCHANGED <<video_ids, i, rows>>
       ELSE /\ video_ids' = search_ret
            /\ i' = 0
            /\ rows' = <<>>
            /\ pc' = "stats_loop"
            /\ shown' = shown
    /\ UNCHANGED <<API_KEY, searchVars, df, kwVars, error, reqLog, respLog>>

\* app.py:347-427: an empty DataFrame is a warning; otherwise the table is
\* sorted and keywords_from_df runs on it
RunAfterStats ==
    /\ pc = "stats_returned"
    /\ IF DfEmpty(df)
       THEN /\ shown' = "no_stats"
            /\ UNCHANGED kwVars
       ELSE /\ kw_df' = sort_values(df)
            /\ topn' = RunTopN
            /\ freqs' = keywords_from_df(kw_df', RunTopN)
            /\ shown' = "results"
    /\ pc' = "done"
    /\ UNCHANGED <<API_KEY, searchVars, statsVars, error, reqLog, respLog>>

\* app.py:429-431: except Exception as e: st.error(...)
RunExcept ==
    /\ pc = "raised"
    /\ shown' = "error"
    /\ pc' = "done"
    /\ UNCHANGED <<API_KEY, searchVars, statsVars, kwVars, error, reqLog,
                   respLog>>

\* app.py:209-221: keywords_from_df called on its own
KwCall ==
    /\ pc = "kw_call"
    /\ freqs' = keywords_from_df(kw_df, topn)
    /\ pc' = "kw_returned"
    /\ UNCHANGED <<API_KEY, searchVars, statsVars, kw_df, topn, error, shown,
                   reqLog, respLog>>

----------------------------------------------------------------------------
(* Specifications *)

Keys == {"", "AIza-key"}

\* everything a call has not touched yet
Blank ==
    /\ ids = <<>>
    /\ fetched = 0
    /\ next_page_token = ""
    /\ search_ret = <<>>
    /\ video_ids = <<>>
    /\ i = 0
    /\ rows = <<>>
    /\ df = <<>>
    /\ kw_df = <<>>
    /\ topn = 0
    /\ freqs = <<>>
    /\ error = NoError
    /\ shown = ""
    /\ reqLog = <<>>
    /\ respLog = <<>>

\* app.py:269-275: the slider gives 10, 20, ..., 200; the smallest position
\* and position MaxSlider are explored
SliderValues == {10, 10 * MaxSlider}

\* The run block, from the button press (app.py:325)
Init ==
    /\ pc = "idle"
    /\ API_KEY \in Keys
    /\ max_results \in SliderValues
    /\ Blank

Next ==
    \/ RunStart
    \/ SearchPage
    \/ SearchLoopEnd
    \/ SearchReturn
    \/ RunAfterSearch
    \/ StatsChunk
    \/ StatsReturn
    \/ RunAfterStats
    \/ RunExcept

Spec == Init /\ [][Next]_vars

\* youtube_search called on its own, just after app.py:99-101
Limits == {1, 2, PageCap - 1, PageCap, PageCap + 1, 2 * PageCap, MaxLimit}

InitSearch ==
    /\ pc = "search_loop"
    /\ API_KEY \in Keys
    /\ max_results \in Limits
    /\ Blank

NextSearch ==
    \/ SearchPage
    \/ SearchLoopEnd
    \/ SearchReturn

SpecSearch == InitSearch /\ [][NextSearch]_vars

\* youtube_videos_stats called on its own, just after app.py:150: lists
\* without repeats, and lists that repeat their ids with period 30
IdCounts == {0, 1, 2, PageCap, PageCap + 1, 2 * PageCap, MaxIds}

IdLists ==
    { [k \in 1..n |-> k] : n \in IdCounts } \cup
    { [k \in 1..n |-> ((k - 1) % 30) + 1] : n \in IdCounts }

InitStats ==
    /\ pc = "stats_loop"
    /\ API_KEY \in Keys
    /\ max_results = 0
    /\ ids = <<>>
    /\ fetched = 0
    /\ next_page_token = ""
    /\ search_ret = <<>>
    /\ video_ids \in IdLists
    /\ i = 0
    /\ rows = <<>>
    /\ df = <<>>
    /\ kw_df = <<>>
    /\ topn = 0
    /\ freqs = <<>>
    /\ error = NoError
    /\ shown = ""
    /\ reqLog = <<>>
    /\ respLog = <<>>

NextStats ==
    \/ StatsChunk
    \/ StatsReturn

SpecStats == InitStats /\ [][NextStats]_vars

\* keywords_from_df called on its own: tables of up to MaxRows rows
KwRows ==
    { [title |-> <<97, 98, 32, 99, 100>>,
       description |-> <<97, 98, 32, 99, 100, 32, 101, 102>>],
      [title |-> <<65, 66>>, description |-> <<99, 100, 33>>],
      [title |-> <<99, 100>>, description |-> <<97, 98>>],
      [title |-> <<116, 104, 101, 32, 97, 32, 86, 108, 111, 103>>,
       description |-> <<116, 111, 32, 49, 32, 120>>],
      [title |-> <<101, 102, 49, 101, 102>>,
       description |-> <<44032, 45208, 32, 97, 98>>],
      [title |-> <<50689, 49345, 32, 44032, 45208>>,
       description |-> <<101, 102>>],
      [title |-> <<>>, description |-> <<>>] }

KwTables == UNION { [1..n -> KwRows] : n \in 0..MaxRows }

InitKw ==
    /\ pc = "kw_call"
    /\ API_KEY \in Keys
    /\ max_results = 0
    /\ ids = <<>>
    /\ fetched = 0
    /\ next_page_token = ""
    /\ search_ret = <<>>
    /\ video_ids = <<>>
    /\ i = 0
    /\ rows = <<>>
    /\ df = <<>>
    /\ kw_df \in KwTables
    /\ topn \in 0..MaxTopN
    /\ freqs = <<>>
    /\ error = NoError
    /\ shown = ""
    /\ reqLog = <<>>
    /\ respLog = <<>>

NextKw == KwCall

SpecKw == InitKw /\ [][NextKw]_vars

----------------------------------------------------------------------------
(* Vocabulary of the properties: what the logs say happened *)

\* the search pages received so far (search responses precede all others)
PagesSeen == Len(SearchRequests)

PageOk(k) == respLog[k].status = 200

\* page k ended the paging: no continuation token, or no items
PageExhausted(k) ==
    PageOk(k) /\ (respLog[k].nextPageToken = "" \/ Len(respLog[k].items) = 0)

RECURSIVE ItemsBefore(_)
ItemsBefore(k) ==
    IF k <= 1 THEN 0 ELSE ItemsBefore(k - 1) + Len(respLog[k - 1].items)

\* the videoIds of pages 1..k in the order received, items without one left
\* out
RECURSIVE StreamUpTo(_)
StreamUpTo(k) ==
    IF k = 0 THEN <<>>
    ELSE StreamUpTo(k - 1) \o
         SelectSeq(respLog[k].items, LAMBDA vid : vid # 0)

PageStream == StreamUpTo(PagesSeen)

FirstIndex(s, v) == CHOOSE k \in 1..Len(s) : s[k] = v /\ \A j \in 1..(k - 1) : s[j] # v

NoRepeats(s) == \A p, q \in 1..Len(s) : s[p] = s[q] => p = q

\* every page that let the loop go on held at least what was asked for
PagesFull ==
    \A k \in 1..PagesSeen :
        (PageOk(k) /\ ~PageExhausted(k)) =>
            Len(respLog[k].items) >= reqLog[k].maxResults

\* no page held more than what was asked for
PagesWithinAsk ==
    \A k \in 1..PagesSeen :
        PageOk(k) => Len(respLog[k].items) <= reqLog[k].maxResults

----------------------------------------------------------------------------
(* C1 *)

\* C1 as stated: whatever the pages hold, youtube_search issues at most
\* ceil(limit / 50) search requests.
C1_AtMostCeilRequests ==
    PagesSeen <= CeilDiv(max_results, PageCap)

\* C1 amended: youtube_search issues at most ceil(limit / 50) search
\* requests when every page that carries a continuation token and is not
\* empty holds at least the maxResults it was asked for; with pages shorter
\* than that it issues at most limit requests.
C1_RequestBound ==
    /\ PagesFull => PagesSeen <= CeilDiv(max_results, PageCap)
    /\ PagesSeen <= max_results

\* a call that needed three full pages
C1_Witness ==
    /\ pc = "search_returned"
    /\ max_results = MaxLimit
    /\ PagesFull
    /\ PagesSeen = 3
    /\ fetched >= max_results

----------------------------------------------------------------------------
(* C2 *)

\* C2: a page with zero items or without nextPageToken is the last one
\* requested, even when fetched is still below the limit, and the call then
\* returns the ids collected so far without an error.
C2_StopsOnExhaustedPage ==
    \A k \in 1..PagesSeen :
        PageExhausted(k) =>
            /\ k = Len(reqLog)
            /\ pc \in {"search_exit", "search_returned"}
            /\ error = NoError
            /\ pc = "search_returned" =>
                   Range(search_ret) = Range(StreamUpTo(k))

\* a second page without a token ended the call below the limit
C2_Witness ==
    /\ pc = "search_returned"
    /\ PagesSeen = 2
    /\ PageExhausted(2)
    /\ Len(respLog[2].items) > 0
    /\ fetched < max_results
    /\ search_ret # <<>>

----------------------------------------------------------------------------
(* C3 *)

\* C3: the list youtube_search returns holds every videoId of the fetched
\* pages exactly once, in the order of first occurrence in the page stream.
C3_DedupFirstOccurrence ==
    pc = "search_returned" =>
        LET st == PageStream IN
        /\ Range(search_ret) = Range(st)
        /\ NoRepeats(search_ret)
        /\ LET first == [p \in 1..Len(search_ret) |->
                            FirstIndex(st, search_ret[p])]
           IN  \A p \in 1..(Len(search_ret) - 1) : first[p] < first[p + 1]

\* a videoId repeated inside one page and again on a later page
C3_Witness ==
    /\ pc = "search_returned"
    /\ PagesSeen >= 2
    /\ \E k \in 1..PagesSeen : ~NoRepeats(respLog[k].items)
    /\ \E j, k \in 1..PagesSeen :
           j < k /\ Range(respLog[j].items) \cap Range(respLog[k].items) # {}
    /\ Len(search_ret) < Len(PageStream)
    /\ Len(search_ret) > 1

----------------------------------------------------------------------------
(* C4 *)

\* C4: while no page holds more than the maxResults it was asked for,
\* len(ids) <= fetched <= limit after every iteration, every request asks
\* for min(50, limit - fetched) which lies in 1..50, and the returned list
\* is no longer than limit.
C4_CountsWithinLimit ==
    PagesWithinAsk =>
        /\ Len(ids) <= fetched
        /\ fetched <= max_results
        /\ \A k \in 1..PagesSeen :
               /\ reqLog[k].maxResults
                    = Min(50, max_results - ItemsBefore(k))
               /\ reqLog[k].maxResults \in 1..50
        /\ Len(search_ret) <= max_results

\* two well-behaved pages that fill the limit exactly
C4_Witness ==
    /\ pc = "search_returned"
    /\ PagesWithinAsk
    /\ PagesSeen = 2
    /\ Len(search_ret) = max_results
    /\ reqLog[2].maxResults < 50

----------------------------------------------------------------------------
(* C5 *)

\* keywords_from_df was run by the run block
KwRan == topn = RunTopN

\* C5: a non-200 response of either endpoint is the last request of the
\* run; the run ends with the error carrying that status and body, the rows
\* of earlier chunks are not returned, and no later stage runs.
C5_FailureAbortsRun ==
    \A k \in 1..Len(respLog) :
        respLog[k].status # 200 =>
            /\ Len(reqLog) = k
            /\ error = [kind |-> "api", status |-> respLog[k].status,
                        body |-> respLog[k].body]
            /\ pc \in {"raised", "done"}
            /\ pc = "done" => shown = "error"
            /\ df = <<>>
            /\ ~KwRan /\ kw_df = <<>> /\ freqs = <<>>
            /\ reqLog[k].path = "search" =>
                   search_ret = <<>> /\ video_ids = <<>> /\ rows = <<>>

\* the second chunk failed after the first one had produced rows
C5_Witness ==
    /\ pc = "done"
    /\ shown = "error"
    /\ Len(VideosRequests) = 2
    /\ respLog[Len(respLog)].status = 500
    /\ Len(rows) > 0

----------------------------------------------------------------------------
(* C6 *)

ItemIds(k) == {respLog[k].items[j].id : j \in 1..Len(respLog[k].items)}

RECURSIVE ItemCount(_)
ItemCount(k) == IF k = 0 THEN 0 ELSE ItemCount(k - 1) + Len(respLog[k].items)

----------------------------------------------------------------------------
(* C7 *)

\* C7: the requests are search requests followed by details requests;
\* aggregation is entered only with ids, keyword extraction only with rows.
C7_StagesInOrder ==
    /\ \A j, k \in 1..Len(reqLog) :
           (j < k /\ reqLog[j].path = "videos") => reqLog[k].path = "videos"
    /\ (pc \in {"stats_loop", "stats_returned"} \/ VideosRequests # <<>>)
           => Len(search_ret) > 0
    /\ shown = "no_results"
           => search_ret = <<>> /\ VideosRequests = <<>> /\ ~KwRan
    /\ shown = "no_stats" => Len(df) = 0 /\ ~KwRan /\ freqs = <<>>
    /\ KwRan => Len(df) > 0 /\ Len(search_ret) > 0 /\ shown = "results"

\* a run whose search took two pages and whose aggregation gave no row
C7_Witness ==
    /\ pc = "done"
    /\ shown = "no_stats"
    /\ PagesSeen = 2
    /\ Len(VideosRequests) >= 1

----------------------------------------------------------------------------
(* C8 *)

\* the positions of video_ids that request k carries
Positions(k) == (50 * (k - 1) + 1)..(50 * (k - 1) + Len(reqLog[k].id))

\* C8: request k carries video_ids[50(k-1)+1 .. min(50k, len)], between 1
\* and 50 ids; when the function returns, ceil(len / 50) requests were made
\* (none for an empty list) and every position was sent exactly once.
C8_ChunkRequests ==
    /\ pc \in {"stats_loop", "stats_returned"} =>
        \A k \in 1..Len(reqLog) :
            /\ reqLog[k].id = SubSeq(video_ids, 50 * (k - 1) + 1,
                                     Min(50 * k, Len(video_ids)))
            /\ Len(reqLog[k].id) \in 1..50
    /\ pc = "stats_returned" =>
        /\ Len(reqLog) = CeilDiv(Len(video_ids), 50)
        /\ Len(video_ids) = 0 => Len(reqLog) = 0
        /\ \A p \in 1..Len(video_ids) :
               Cardinality({k \in 1..Len(reqLog) : p \in Positions(k)}) = 1

\* a list that needs three requests, the last one short
C8_Witness ==
    /\ pc = "stats_returned"
    /\ Len(video_ids) > 100
    /\ Len(reqLog) = 3
    /\ Len(reqLog[3].id) < 50

----------------------------------------------------------------------------
(* C9 *)

\* the items of responses 1..k in the order received
RECURSIVE ItemsUpTo(_)
ItemsUpTo(k) == IF k = 0 THEN <<>> ELSE ItemsUpTo(k - 1) \o respLog[k].items

StatMissing(it, key) ==
    "statistics" \notin DOMAIN it \/ key \notin DOMAIN it.statistics

DecValue(str) ==
    IF Len(str) = 1 THEN str[1] - 48
    ELSE IF Len(str) = 2 THEN 10 * (str[1] - 48) + (str[2] - 48)
    ELSE 100 * (str[1] - 48) + 10 * (str[2] - 48) + (str[3] - 48)

StatRead(it, key, value) ==
    IF StatMissing(it, key) THEN value = 0
    ELSE it.statistics[key] # <<>> => value = DecValue(it.statistics[key])

Abs(x) == IF x < 0 THEN -x ELSE x

\* row r of the result was read from item r of the responses
C9_CountsRead ==
    LET its == ItemsUpTo(Len(respLog))
    IN  /\ Len(df) = Len(its)
        /\ \A r \in 1..Len(df) :
               /\ StatRead(its[r], "viewCount", df[r].viewCount)
               /\ StatRead(its[r], "likeCount", df[r].likeCount)
               /\ StatRead(its[r], "commentCount", df[r].commentCount)

\* C9 as stated: the rate is 0 for view_count = 0 and exactly
\* (like_count + comment_count) / view_count * 100 otherwise; a missing
\* statistics field counts as 0; the rate is never negative.
C9_ExactRate ==
    pc = "stats_returned" =>
        /\ C9_CountsRead
        /\ \A r \in 1..Len(df) :
               /\ df[r].viewCount = 0 => df[r].ER = 0
               /\ df[r].viewCount > 0 =>
                      df[r].ER * df[r].viewCount
                        = (df[r].likeCount + df[r].commentCount) * 100000
               /\ df[r].ER >= 0

\* C9 amended: the rate is 0 for view_count = 0 and, for view_count > 0,
\* (like_count + comment_count) / view_count * 100 rounded to 3 decimal
\* places (so within 0.0005 of it); a missing statistics field counts as 0;
\* the rate is never negative.
C9_RoundedRate ==
    pc = "stats_returned" =>
        /\ C9_CountsRead
        /\ \A r \in 1..Len(df) :
               /\ df[r].viewCount = 0 => df[r].ER = 0
               /\ df[r].viewCount > 0 =>
                      2 * Abs(df[r].ER * df[r].viewCount
                              - (df[r].likeCount + df[r].commentCount) * 100000)
                        <= df[r].viewCount
               /\ (df[r].viewCount = 100 /\ df[r].likeCount = 5
                     /\ df[r].commentCount = 3) => df[r].ER = 8000
               /\ df[r].ER >= 0

\* a table with the 8.0 row, a row without views but with likes, a row
\* whose rate had to be rounded, and a row read from an item without
\* viewCount
C9_Witness ==
    /\ pc = "stats_returned"
    /\ \E r \in 1..Len(df) :
           df[r].viewCount = 100 /\ df[r].likeCount = 5
             /\ df[r].commentCount = 3 /\ df[r].ER = 8000
    /\ \E r \in 1..Len(df) :
           df[r].viewCount = 0 /\ df[r].likeCount > 0 /\ df[r].ER = 0
    /\ \E r \in 1..Len(df) :
           df[r].viewCount > 0
             /\ df[r].ER * df[r].viewCount
                  # (df[r].likeCount + df[r].commentCount) * 100000
    /\ \E r \in 1..Len(df) :
           StatMissing(ItemsUpTo(Len(respLog))[r], "viewCount")

----------------------------------------------------------------------------
(* C10 *)

Occurrences(s, t) == Cardinality({k \in 1..Len(s) : s[k] = t})

\* C10: keywords_from_df returns the topn most frequent tokens of the
\* filtered token stream (all of them when there are fewer), each once with
\* its number of occurrences, by count descending and, for equal counts, by
\* first appearance; none is a stopword or shorter than 2 characters, and
\* nothing is returned when no token survives.
C10_TopTokens ==
    pc = "kw_returned" =>
        LET st == CorpusOf(kw_df)
            tok(p) == freqs[p][1]
            cnt(p) == freqs[p][2]
            Ahead(t, n, u, m) ==
                n > m \/ (n = m /\ FirstIndex(st, t) < FirstIndex(st, u))
        IN  /\ Len(freqs) <= topn
            /\ Len(freqs) = Min(topn, Cardinality(Range(st)))
            /\ \A p, q \in 1..Len(freqs) : tok(p) = tok(q) => p = q
            /\ \A p \in 1..Len(freqs) :
                   /\ tok(p) \in Range(st)
                   /\ cnt(p) = Occurrences(st, tok(p))
                   /\ tok(p) \notin DEFAULT_STOPWORDS
                   /\ Len(tok(p)) >= 2
            /\ \A p, q \in 1..Len(freqs) :
                   p < q => Ahead(tok(p), cnt(p), tok(q), cnt(q))
            /\ \A t \in Range(st) \ {tok(p) : p \in 1..Len(freqs)} :
                   \A p \in 1..Len(freqs) :
                       Ahead(tok(p), cnt(p), t, Occurrences(st, t))
            /\ st = <<>> => freqs = <<>>

\* counts ab:3, cd:3, ef:1 with ab seen before cd
C10_Witness ==
    /\ pc = "kw_returned"
    /\ topn = 3
    /\ freqs = << <<(<<97, 98>>), 3>>, <<(<<99, 100>>), 3>>,
                  <<(<<101, 102>>), 1>> >>

====
